---------------------------- MODULE Spec2Model ----------------------------
(***************************************************************************)
(* A model of the frame-stepped battle engine in                           *)
(* src/src/example/BattleLogic.ts.  Every public method of BattleLogic is  *)
(* one action; update() is one atomic action made of the private phases    *)
(* it calls, in the order it calls them.  Entities are objects: they live  *)
(* in a heap keyed by their id, the live collection unitEntities holds     *)
(* ids in array order, and engagedEntity is a reference (a set holding at  *)
(* most one id) that stays valid after compaction, as in JavaScript.       *)
(***************************************************************************)
EXTENDS Integers, Sequences, FiniteSets, TLC

(***************************************************************************)
(* Bounds of the exploration.                                              *)
(***************************************************************************)
\* update() is explored for frames 0 .. MaxFrames - 1
MaxFrames == 4

(***************************************************************************)
(* Inputs of init(): master data, wave schedules, configurations.          *)
(***************************************************************************)
\* AttackableState
IDLE == "IDLE"
ENGAGED == "ENGAGED"
KNOCK_BACK == "KNOCK_BACK"
DEAD == "DEAD"
AttackableState == {IDLE, ENGAGED, KNOCK_BACK, DEAD}

\* unit type ids used in requests and rosters; unit type 3 has no master
KnownUnitIds == {1, 2}

\* params.unitMasters: a light unit that hurts a little and a heavy hitter
UnitMasters ==
  [u \in KnownUnitIds |->
     IF u = 1
     THEN [unitId |-> 1, cost |-> 1, maxHealth |-> 4, power |-> 1, speed |-> 1,
           knockBackSpeed |-> 1, knockBackFrames |-> 1]
     ELSE [unitId |-> 2, cost |-> 2, maxHealth |-> 2, power |-> 3, speed |-> 2,
           knockBackSpeed |-> 1, knockBackFrames |-> 2]]

\* a knockback threshold is a fraction num/den of maxHealth
Half == [num |-> 1, den |-> 2]
Zero == [num |-> 0, den |-> 1]

\* BattleLogicConfig values explored
Configs ==
  { [costRecoveryPerFrame |-> 1, maxAvailableCost |-> 3,
     knockBackHealthThreasholds |-> <<Half>>],
    [costRecoveryPerFrame |-> 2, maxAvailableCost |-> 3,
     knockBackHealthThreasholds |-> <<Half, Zero>>],
    [costRecoveryPerFrame |-> 3, maxAvailableCost |-> 2,
     knockBackHealthThreasholds |-> <<>>] }

\* stageMaster.waves values explored: an object whose property names are frame
\* numbers in decimal, a name being the sequence of its characters, and whose
\* values list the unit ids of the AI side
WaveSchedules ==
  { <<>>,
    (<<"1">> :> <<3, 2>>),
    (<<"3">> :> <<2, 1>>) @@ (<<"1", "0">> :> <<1>>) }

\* params.delegator: shouldUnitWalk() of the delegates explored says yes while
\* the unit has not yet come this far
WalkLimits == {1}

\* what the callers of requestSpawnPlayer() (P) and requestSpawnAI() (A) ask for
\* in one run, in this order and at any moments they like
P(unitId) == [unitId |-> unitId, isPlayer |-> TRUE]
A(unitId) == [unitId |-> unitId, isPlayer |-> FALSE]
Scripts ==
  { << P(1), P(1) >>,
    << A(2), P(1) >>,
    << P(1), A(2) >>,
    << A(1), P(2) >>,
    << P(2), P(3) >>,
    << A(3), A(1) >> }

\* params.player.unitIds
PlayerRoster == <<1, 2, 3>>

(***************************************************************************)
(* State.                                                                  *)
(***************************************************************************)
VARIABLES
  config,                     \* BattleLogic.config
  delegator,                  \* TRUE iff BattleLogic.delegator is not null
  walkLimit,                  \* the attached delegate's rule for shouldUnitWalk()
  availableCost,              \* BattleLogic.availableCost
  nextEntityId,               \* BattleLogic.nextEntityId
  unitEntities,               \* BattleLogic.unitEntities: ids, in array order
  heap,                       \* every UnitEntity object created so far, by id
  unitMasterCache,            \* BattleLogic.unitMasterCache
  stageMasterCache,           \* BattleLogic.stageMasterCache.waves; <<>> while null
  aiWaveCache,                \* BattleLogic.aiWaveCache
  passedFrameCount,           \* BattleLogic.passedFrameCount
  spawnRequestedUnitUnitIds,  \* BattleLogic.spawnRequestedUnitUnitIds
  player,                     \* BattleLogic.player.unitIds
  initialized,                \* init() has been called
  script,                     \* the requestSpawn() calls still to come
  costRun,                    \* {n}: the cost was 0 under this config n frames
                              \* ago and no player request was accepted since
  notifications,              \* delegate callbacks made by the last call, in order
  last,                       \* what the last call did, phase by phase
  engageAnswers,              \* the pairs shouldEngageAttackableEntity() approved in
                              \* the last frame, where the delegate is listened to
  manager,                    \* the fields of a BattleManager (managers/BattleManager.ts)
  managerCalls                \* the spawns its callers still have to ask for

logicVars ==
  << config, delegator, walkLimit, availableCost, nextEntityId, unitEntities, heap,
     unitMasterCache, stageMasterCache, aiWaveCache, passedFrameCount,
     spawnRequestedUnitUnitIds, player, initialized, script, costRun, notifications,
     last, engageAnswers >>

managerVars == << manager, managerCalls >>

vars == << logicVars, managerVars >>

\* the field initialisers of BattleManager; units holds references into objects,
\* which keeps every Unit ever created
ManagerNew ==
  [ costRecoveryPerFrame |-> 0, maxAvailableCost |-> 100, customDelegator |-> FALSE,
    availableCost |-> 0, units |-> <<>>, objects |-> <<>>,
    aiWaveMasterCache |-> <<>>, unitMasterCache |-> <<>>,
    spawnRequestedUnitUnitIds |-> <<>>, passedFrameCount |-> 0, initialized |-> FALSE ]

\* the field initialisers of the class: the state after construction
Init ==
  /\ config \in Configs
  /\ delegator = FALSE
  /\ walkLimit = 0
  /\ availableCost = 0
  /\ nextEntityId = 0
  /\ unitEntities = <<>>
  /\ heap = <<>>
  /\ unitMasterCache = <<>>
  /\ stageMasterCache = <<>>
  /\ aiWaveCache = <<>>
  /\ passedFrameCount = 0
  /\ spawnRequestedUnitUnitIds = <<>>
  /\ player = <<>>
  /\ initialized = FALSE
  /\ script \in Scripts
  /\ costRun = {0}
  /\ notifications = <<>>
  /\ last = [op |-> "new"]
  /\ engageAnswers = {}
  /\ manager = ManagerNew
  /\ managerCalls = <<>>

(***************************************************************************)
(* Number.parseInt(key, 10) on a property name: leading blanks are         *)
(* skipped, a sign is read, then decimal digits up to the first character  *)
(* that is none; NaN when there is no digit to read.  The result is a set: *)
(* {n} for the number n, {} for NaN.                                       *)
(***************************************************************************)
DecimalDigits == << "0", "1", "2", "3", "4", "5", "6", "7", "8", "9" >>

IsDigit(c) == \E d \in 1..Len(DecimalDigits) : DecimalDigits[d] = c

DigitValue(c) == (CHOOSE d \in 1..Len(DecimalDigits) : DecimalDigits[d] = c) - 1

RECURSIVE SkipBlanks(_)
SkipBlanks(key) ==
  IF key # <<>> /\ Head(key) = " " THEN SkipBlanks(Tail(key)) ELSE key

\* the value of the digits key starts with, read after the value acc
RECURSIVE ReadDigits(_, _)
ReadDigits(key, acc) ==
  IF key # <<>> /\ IsDigit(Head(key))
  THEN ReadDigits(Tail(key), acc * 10 + DigitValue(Head(key)))
  ELSE acc

NaN == {}

\* a parse that reads one digit only
ParseFirstDigit(key) ==
  IF key # <<>> /\ IsDigit(Head(key)) THEN {DigitValue(Head(key))} ELSE NaN

ParseInt(key) ==
  LET trimmed == SkipBlanks(key)
      signed == trimmed # <<>> /\ Head(trimmed) \in {"+", "-"}
      body == IF signed THEN Tail(trimmed) ELSE trimmed
  IN  IF body = <<>> \/ ~IsDigit(Head(body))
      THEN NaN
      ELSE IF signed /\ Head(trimmed) = "-"
           THEN {0 - ReadDigits(body, 0)}
           ELSE {ReadDigits(body, 0)}

\* lines 98-103: aiWaveCache after a set() for every property of waves; the
\* entry set under NaN is left out, no frame counter being NaN
CacheWaves(cache, waves) ==
  LET frames == UNION {ParseInt(key) : key \in DOMAIN waves}
  IN  [frame \in frames \cup DOMAIN cache |->
         IF frame \in frames
         THEN waves[CHOOSE key \in DOMAIN waves : ParseInt(key) = {frame}]
         ELSE cache[frame]]

(***************************************************************************)
(* init()                                                                  *)
(***************************************************************************)
init(paramsConfig, paramsDelegator, paramsWalkLimit, waves) ==
  /\ ~initialized
  /\ config' = paramsConfig
  /\ delegator' = paramsDelegator
  /\ walkLimit' = paramsWalkLimit
  /\ player' = PlayerRoster
  /\ unitMasterCache' = UnitMasters
  /\ stageMasterCache' = waves
  /\ aiWaveCache' = CacheWaves(aiWaveCache, waves)
  /\ initialized' = TRUE
  /\ costRun' = IF paramsConfig = config THEN costRun
                ELSE IF availableCost = 0 THEN {0} ELSE {}
  /\ notifications' = <<>>
  /\ last' = [op |-> "init"]
  /\ UNCHANGED << availableCost, nextEntityId, unitEntities, heap,
                  passedFrameCount, spawnRequestedUnitUnitIds, script >>

(***************************************************************************)
(* requestSpawn(), requestSpawnPlayer(), requestSpawnAI()                  *)
(***************************************************************************)
\* a request that jumps the queue
requestSpawnAtFront(unitId, isPlayer) ==
  /\ spawnRequestedUnitUnitIds' =
       << [unitId |-> unitId, isPlayer |-> isPlayer] >> \o spawnRequestedUnitUnitIds
  /\ notifications' = <<>>
  /\ last' = [op |-> "requestSpawn"]
  /\ costRun' = costRun
  /\ UNCHANGED << config, delegator, walkLimit, availableCost, nextEntityId,
                  unitEntities, heap, unitMasterCache, stageMasterCache, aiWaveCache,
                  passedFrameCount, player, initialized >>

requestSpawn(unitId, isPlayer) ==
  /\ spawnRequestedUnitUnitIds' =
       Append(spawnRequestedUnitUnitIds, [unitId |-> unitId, isPlayer |-> isPlayer])
  /\ notifications' = <<>>
  /\ last' = [op |-> "requestSpawn"]
  /\ costRun' = costRun
  /\ UNCHANGED << config, delegator, walkLimit, availableCost, nextEntityId,
                  unitEntities, heap, unitMasterCache, stageMasterCache, aiWaveCache,
                  passedFrameCount, player, initialized >>

requestSpawnPlayer(unitId) == requestSpawn(unitId, TRUE)

requestSpawnAI(unitId) == requestSpawn(unitId, FALSE)


(***************************************************************************)
(* updateAvailableCost(newCost): the new cost and the callback it makes    *)
(***************************************************************************)
\* a cost update that forgets the cap
ClampForgotten(newCost) == newCost

Clamp(newCost) ==
  IF newCost > config.maxAvailableCost THEN config.maxAvailableCost ELSE newCost

AvailablePlayerUnitIds(cost) ==
  SelectSeq(player,
            LAMBDA unitId : /\ unitId \in DOMAIN unitMasterCache
                            /\ cost >= unitMasterCache[unitId].cost)

updateAvailableCost(newCost) ==
  LET cost == Clamp(newCost)
  IN  [ availableCost |-> cost,
        notes |-> IF delegator
                  THEN << [type |-> "onAvailableCostUpdated",
                           availableCost |-> cost,
                           maxAvailableCost |-> config.maxAvailableCost,
                           availablePlayerUnitIds |-> AvailablePlayerUnitIds(cost)] >>
                  ELSE <<>> ]

(***************************************************************************)
(* updateAISpawn(): the queue after the wave of the current frame          *)
(***************************************************************************)
updateAISpawn(queue) ==
  IF passedFrameCount \notin DOMAIN aiWaveCache
  THEN queue
  ELSE LET waves == aiWaveCache[passedFrameCount]
       IN  queue \o [i \in 1..Len(waves) |-> [unitId |-> waves[i], isPlayer |-> FALSE]]

(***************************************************************************)
(* updateSpawnRequest(): the drain of the pending queue                    *)
(***************************************************************************)
\* new UnitEntity(unitId, isPlayer): the fields a fresh entity starts with
UnitEntity(unitId, isPlayer) ==
  [ id |-> 0, unitId |-> unitId, isPlayer |-> isPlayer, state |-> IDLE,
    currentHealth |-> 0, maxHealth |-> 0, distance |-> 0, engagedEntity |-> {},
    currentFrameDamage |-> 0, currentKnockBackFrameCount |-> 0 ]

\* a cost gate that refuses a request that would spend the last of the cost
CanPayAndKeepSome(tmpCost, master) == (tmpCost - master.cost) > 0

\* line 222: the player's request passes the cost gate
CanPay(tmpCost, master) == ~((tmpCost - master.cost) < 0)

\* a drain that charges an accepted request twice
DeductTwice(tmpCost, master) == tmpCost - master.cost - master.cost

\* line 226: the running cost after an accepted player request
Deduct(tmpCost, master) == tmpCost - master.cost

\* an entity that is never given its id
SpawnedEntityWithoutId(reservedUnit, master, id) ==
  [ UnitEntity(reservedUnit.unitId, reservedUnit.isPlayer) EXCEPT
      !.maxHealth = master.maxHealth,
      !.currentHealth = master.maxHealth,
      !.state = IDLE ]

\* lines 233-238: the entity a request creates
SpawnedEntity(reservedUnit, master, id) ==
  [ UnitEntity(reservedUnit.unitId, reservedUnit.isPlayer) EXCEPT
      !.id = id,
      !.maxHealth = master.maxHealth,
      !.currentHealth = master.maxHealth,
      !.state = IDLE ]

\* an iteration that puts the requests of both sides behind the cost gate
SpawnOneGatingBothSides(w, reservedUnit) ==
  IF reservedUnit.unitId \notin DOMAIN unitMasterCache
  THEN [w EXCEPT !.drain = Append(@, [request |-> reservedUnit, tmpCost |-> w.tmpCost,
                                      accepted |-> FALSE, entity |-> {}])]
  ELSE
    LET master == unitMasterCache[reservedUnit.unitId]
    IN  IF ~CanPay(w.tmpCost, master)
        THEN [w EXCEPT !.drain = Append(@, [request |-> reservedUnit,
                                            tmpCost |-> w.tmpCost,
                                            accepted |-> FALSE, entity |-> {}])]
        ELSE
          LET id == w.nextEntityId
              entity == SpawnedEntity(reservedUnit, master, id)
              baseLocation == IF reservedUnit.isPlayer THEN 100 ELSE 1000
          IN  [ tmpCost |-> IF reservedUnit.isPlayer
                            THEN Deduct(w.tmpCost, master) ELSE w.tmpCost,
                nextEntityId |-> id + 1,
                unitEntities |-> Append(w.unitEntities, id),
                heap |-> w.heap @@ (id :> entity),
                notes |-> IF delegator
                          THEN Append(w.notes, [type |-> "onUnitEntitySpawned",
                                                entity |-> id,
                                                baseLocation |-> baseLocation])
                          ELSE w.notes,
                drain |-> Append(w.drain, [request |-> reservedUnit,
                                           tmpCost |-> w.tmpCost,
                                           accepted |-> TRUE, entity |-> {id}]) ]

\* one iteration of the loop of lines 210-244 on the world w =
\* [tmpCost, nextEntityId, unitEntities, heap, notes, drain]; drain records,
\* per request, the running cost it met and what became of it
SpawnOne(w, reservedUnit) ==
  IF reservedUnit.unitId \notin DOMAIN unitMasterCache
  THEN [w EXCEPT !.drain = Append(@, [request |-> reservedUnit, tmpCost |-> w.tmpCost,
                                      accepted |-> FALSE, entity |-> {}])]
  ELSE
    LET master == unitMasterCache[reservedUnit.unitId]
    IN  IF reservedUnit.isPlayer /\ ~CanPay(w.tmpCost, master)
        THEN [w EXCEPT !.drain = Append(@, [request |-> reservedUnit,
                                            tmpCost |-> w.tmpCost,
                                            accepted |-> FALSE, entity |-> {}])]
        ELSE
          LET id == w.nextEntityId
              entity == SpawnedEntity(reservedUnit, master, id)
              baseLocation == IF reservedUnit.isPlayer THEN 100 ELSE 1000
          IN  [ tmpCost |-> IF reservedUnit.isPlayer
                            THEN Deduct(w.tmpCost, master) ELSE w.tmpCost,
                nextEntityId |-> id + 1,
                unitEntities |-> Append(w.unitEntities, id),
                heap |-> w.heap @@ (id :> entity),
                notes |-> IF delegator
                          THEN Append(w.notes, [type |-> "onUnitEntitySpawned",
                                                entity |-> id,
                                                baseLocation |-> baseLocation])
                          ELSE w.notes,
                drain |-> Append(w.drain, [request |-> reservedUnit,
                                           tmpCost |-> w.tmpCost,
                                           accepted |-> TRUE, entity |-> {id}]) ]

RECURSIVE SpawnLoop(_, _, _)
SpawnLoop(w, queue, i) ==
  IF i > Len(queue) THEN w ELSE SpawnLoop(SpawnOne(w, queue[i]), queue, i + 1)

\* w = [availableCost, nextEntityId, unitEntities, heap, notes]; the result adds
\* drain and the emptied queue
updateSpawnRequest(w, queue) ==
  IF Len(queue) = 0
  THEN [ availableCost |-> w.availableCost, nextEntityId |-> w.nextEntityId,
         unitEntities |-> w.unitEntities, heap |-> w.heap, notes |-> w.notes,
         drain |-> <<>>, queue |-> queue ]
  ELSE
    LET start == [ tmpCost |-> w.availableCost, nextEntityId |-> w.nextEntityId,
                   unitEntities |-> w.unitEntities, heap |-> w.heap,
                   notes |-> w.notes, drain |-> <<>> ]
        done == SpawnLoop(start, queue, 1)
        cost == updateAvailableCost(done.tmpCost)
    IN  [ availableCost |-> cost.availableCost, nextEntityId |-> done.nextEntityId,
          unitEntities |-> done.unitEntities, heap |-> done.heap,
          notes |-> done.notes \o cost.notes,
          drain |-> done.drain, queue |-> <<>> ]

(***************************************************************************)
(* updateEntityParameter(): damage, then movement, entity by entity.       *)
(* shouldDamageOK holds the attackers the delegate lets damage.            *)
(* The world is w = [heap, notes].                                         *)
(***************************************************************************)
Target(unit) == CHOOSE t \in unit.engagedEntity : TRUE

\* delegator.shouldUnitWalk(unit)
shouldUnitWalk(unit) == unit.distance < walkLimit

\* a damage step that overwrites the frame's damage instead of adding to it
updateDamageNotAccumulating(w, u, shouldDamageOK) ==
  IF w.heap[u].engagedEntity = {}
  THEN w
  ELSE
    LET t == Target(w.heap[u])
        master == unitMasterCache[w.heap[u].unitId]
    IN  IF ~delegator \/ u \in shouldDamageOK
        THEN [ heap |-> [w.heap EXCEPT
                           ![t].currentFrameDamage = master.power,
                           ![t].currentHealth = @ - master.power],
               notes |-> w.notes ]
        ELSE w

updateDamage(w, u, shouldDamageOK) ==
  LET unit == w.heap[u]
      master == unitMasterCache[unit.unitId]
  IN  IF unit.engagedEntity = {}
      THEN w
      ELSE
        LET t == Target(unit)
            newHealth == w.heap[t].currentHealth - master.power
        IN  IF ~delegator \/ u \in shouldDamageOK
            THEN [ heap |-> [w.heap EXCEPT
                               ![t].currentFrameDamage = @ + master.power,
                               ![t].currentHealth = newHealth],
                   notes |-> IF delegator
                             THEN Append(w.notes,
                                    [type |-> "onAttackableEntityHealthUpdated",
                                     attacker |-> u, target |-> t,
                                     fromHealth |-> newHealth + master.power,
                                     toHealth |-> newHealth,
                                     maxHealth |-> w.heap[t].maxHealth])
                             ELSE w.notes ]
            ELSE w

\* a movement step that lets every entity outside KNOCK_BACK walk
updateDistanceWalkingWhenEngaged(w, u) ==
  LET unit == w.heap[u]
      master == unitMasterCache[unit.unitId]
  IN  IF unit.state = KNOCK_BACK
      THEN [ heap |-> [w.heap EXCEPT
                         ![u].distance = @ - master.knockBackSpeed,
                         ![u].currentKnockBackFrameCount = @ + 1],
             notes |-> w.notes ]
      ELSE [ heap |-> [w.heap EXCEPT ![u].currentKnockBackFrameCount = 0,
                                     ![u].distance = @ + master.speed],
             notes |-> w.notes ]

updateDistance(w, u) ==
  LET unit == w.heap[u]
      master == unitMasterCache[unit.unitId]
  IN  IF unit.state = KNOCK_BACK
      THEN [ heap |-> [w.heap EXCEPT
                         ![u].distance = @ - master.knockBackSpeed,
                         ![u].currentKnockBackFrameCount = @ + 1],
             notes |-> IF delegator
                       THEN Append(w.notes,
                              [type |-> "onUnitEntityKnockingBack", entity |-> u,
                               count |-> unit.currentKnockBackFrameCount + 1,
                               knockBackFrames |-> master.knockBackFrames])
                       ELSE w.notes ]
      ELSE
        LET reset == [w.heap EXCEPT ![u].currentKnockBackFrameCount = 0]
        IN  IF unit.state = IDLE
            THEN IF delegator
                 THEN IF shouldUnitWalk(unit)
                      THEN [ heap |-> [reset EXCEPT ![u].distance = @ + master.speed],
                             notes |-> Append(w.notes, [type |-> "onUnitEntityWalked",
                                                        entity |-> u]) ]
                      ELSE [ heap |-> reset, notes |-> w.notes ]
                 ELSE [ heap |-> [reset EXCEPT ![u].distance = @ + master.speed],
                        notes |-> w.notes ]
            ELSE [ heap |-> reset, notes |-> w.notes ]

RECURSIVE ParameterLoop(_, _, _, _)
ParameterLoop(w, live, i, shouldDamageOK) ==
  IF i > Len(live)
  THEN w
  ELSE
    LET u == live[i]
    IN  IF w.heap[u].unitId \notin DOMAIN unitMasterCache
        THEN ParameterLoop(w, live, i + 1, shouldDamageOK)
        ELSE ParameterLoop(updateDistance(updateDamage(w, u, shouldDamageOK), u),
                           live, i + 1, shouldDamageOK)

updateEntityParameter(w, live, shouldDamageOK) ==
  ParameterLoop(w, live, 1, shouldDamageOK)

(***************************************************************************)
(* updateEntityState(): the three passes over the live collection, each    *)
(* looking at the state the entity has when the pass reaches it.           *)
(* shouldEngageOK holds the <<unit, target>> pairs the delegate approves.  *)
(***************************************************************************)
\* a comparison that counts a health equal to the threshold as below it
StrictlyAbove(health, maxHealth, rate) == health * rate.den > maxHealth * rate.num

\* currentHealth >= maxHealth * rate, with rate the fraction num/den
AtOrAbove(health, maxHealth, rate) == health * rate.den >= maxHealth * rate.num

\* a knockback that lasts one update longer than knockBackFrames
updateUnitKnockBackStateLate(h, u) ==
  LET cleared == [h EXCEPT ![u].engagedEntity = {}]
      unit == cleared[u]
  IN  IF unit.unitId \notin DOMAIN unitMasterCache
      THEN cleared
      ELSE IF unit.currentKnockBackFrameCount
                <= unitMasterCache[unit.unitId].knockBackFrames
           THEN cleared
           ELSE [cleared EXCEPT
                   ![u].state = IF unit.currentHealth < 1 THEN DEAD ELSE IDLE]

updateUnitKnockBackState(h, u) ==
  LET cleared == [h EXCEPT ![u].engagedEntity = {}]
      unit == cleared[u]
  IN  IF unit.unitId \notin DOMAIN unitMasterCache
      THEN cleared
      ELSE IF unit.currentKnockBackFrameCount
                < unitMasterCache[unit.unitId].knockBackFrames
           THEN cleared
           ELSE [cleared EXCEPT
                   ![u].state = IF unit.currentHealth < 1 THEN DEAD ELSE IDLE]

\* a disengage check that forgets the dead target
DisengageFromKnockedBackOnly(h, u) ==
  IF h[u].engagedEntity = {}
  THEN h
  ELSE IF h[Target(h[u])].state = KNOCK_BACK
       THEN [h EXCEPT ![u].engagedEntity = {}, ![u].state = IDLE]
       ELSE h

\* lines 393-404: the target died or is knocked back
Disengage(h, u) ==
  IF h[u].engagedEntity = {}
  THEN h
  ELSE
    LET target == h[Target(h[u])]
        targetIsDead == target.currentHealth < 1
        targetIsKnockingBack == target.state = KNOCK_BACK
    IN  IF targetIsDead \/ targetIsKnockingBack
        THEN [h EXCEPT ![u].engagedEntity = {}, ![u].state = IDLE]
        ELSE h

\* a ladder that no longer looks at the health before the frame's damage
BelowThreshold(unit) ==
  \E i \in 1..Len(config.knockBackHealthThreasholds) :
    ~AtOrAbove(unit.currentHealth, unit.maxHealth, config.knockBackHealthThreasholds[i])

\* lines 406-420: some threshold lies between this frame's old and new health
CrossedThreshold(unit) ==
  LET oldHealth == unit.currentHealth + unit.currentFrameDamage
      ths == config.knockBackHealthThreasholds
  IN  \E i \in 1..Len(ths) :
        /\ ~AtOrAbove(unit.currentHealth, unit.maxHealth, ths[i])
        /\ AtOrAbove(oldHealth, unit.maxHealth, ths[i])

\* a ladder that leaves the knocked-back entity its target
KnockBackKeepingTarget(h, u) ==
  IF CrossedThreshold(h[u])
  THEN [h EXCEPT ![u].state = KNOCK_BACK]
  ELSE h

KnockBack(h, u) ==
  IF CrossedThreshold(h[u])
  THEN [h EXCEPT ![u].engagedEntity = {}, ![u].state = KNOCK_BACK]
  ELSE h

\* an ENGAGED resolution that returns once the disengage branch has fired
updateUnitEngagedStateReturningEarly(h, u) ==
  IF Disengage(h, u) # h THEN Disengage(h, u) ELSE KnockBack(h, u)

updateUnitEngagedState(h, u) == KnockBack(Disengage(h, u), u)

\* a scan that also stops at a target in KNOCK_BACK
EngageableInKnockBack(h, unit, target, shouldEngageOK) ==
  /\ ~( (unit.isPlayer /\ target.isPlayer) \/ (~unit.isPlayer /\ ~target.isPlayer) )
  /\ target.state # DEAD
  /\ delegator /\ <<unit.id, target.id>> \in shouldEngageOK

\* a target the scan of lines 426-452 may stop at
Engageable(h, unit, target, shouldEngageOK) ==
  /\ ~( (unit.isPlayer /\ target.isPlayer) \/ (~unit.isPlayer /\ ~target.isPlayer) )
  /\ ~(target.state # IDLE /\ target.state # ENGAGED)
  /\ delegator /\ <<unit.id, target.id>> \in shouldEngageOK

RECURSIVE IdleScan(_, _, _, _, _)
IdleScan(h, live, u, i, shouldEngageOK) ==
  IF i > Len(live)
  THEN h
  ELSE IF Engageable(h, h[u], h[live[i]], shouldEngageOK)
       THEN [h EXCEPT ![u].engagedEntity = {live[i]}, ![u].state = ENGAGED]
       ELSE IdleScan(h, live, u, i + 1, shouldEngageOK)

updateUnitIdleState(h, live, u, shouldEngageOK) ==
  IdleScan(h, live, u, 1, shouldEngageOK)

\* one of the loops of lines 341-358, for the entities found in state `group`
RECURSIVE StateLoop(_, _, _, _, _)
StateLoop(h, live, i, group, shouldEngageOK) ==
  IF i > Len(live)
  THEN h
  ELSE
    LET u == live[i]
        next == IF h[u].state # group THEN h
                ELSE IF group = KNOCK_BACK THEN updateUnitKnockBackState(h, u)
                ELSE IF group = ENGAGED THEN updateUnitEngagedState(h, u)
                ELSE updateUnitIdleState(h, live, u, shouldEngageOK)
    IN  StateLoop(next, live, i + 1, group, shouldEngageOK)

ResolveStates(h, live, shouldEngageOK) ==
  LET afterKnockBack == StateLoop(h, live, 1, KNOCK_BACK, shouldEngageOK)
      afterEngaged == StateLoop(afterKnockBack, live, 1, ENGAGED, shouldEngageOK)
  IN  StateLoop(afterEngaged, live, 1, IDLE, shouldEngageOK)

\* callbacks made only once the dead have been taken out of the collection
StateChangeNotesOfSurvivors(before, after, live) ==
  LET changed == SelectSeq(live, LAMBDA u : /\ before[u].state # after[u].state
                                            /\ after[u].state # DEAD)
  IN  [i \in 1..Len(changed) |->
         [type |-> "onAttackableEntityStateChanged", entity |-> changed[i],
          oldState |-> before[changed[i]].state, state |-> after[changed[i]].state]]

\* lines 361-369: one callback per entity whose state differs from unitStates[i]
StateChangeNotes(before, after, live) ==
  LET changed == SelectSeq(live, LAMBDA u : before[u].state # after[u].state)
  IN  [i \in 1..Len(changed) |->
         [type |-> "onAttackableEntityStateChanged", entity |-> changed[i],
          oldState |-> before[changed[i]].state, state |-> after[changed[i]].state]]

updateEntityState(w, live, shouldEngageOK) ==
  LET after == ResolveStates(w.heap, live, shouldEngageOK)
  IN  [ heap |-> after,
        notes |-> IF delegator
                  THEN w.notes \o StateChangeNotes(w.heap, after, live)
                  ELSE w.notes ]

(***************************************************************************)
(* updatePostProcess(): compaction, then the reset of the frame's damage   *)
(***************************************************************************)
\* a compaction that keeps the dead
CompactNothing(h, live) == live

Compact(h, live) == SelectSeq(live, LAMBDA u : h[u].state # DEAD)

ResetFrameDamage(h, live) ==
  [u \in DOMAIN h |->
     IF \E i \in 1..Len(live) : live[i] = u
     THEN [h[u] EXCEPT !.currentFrameDamage = 0]
     ELSE h[u]]

updatePostProcess(h, live) ==
  LET activeUnitEntities == Compact(h, live)
  IN  [ unitEntities |-> activeUnitEntities,
        heap |-> ResetFrameDamage(h, activeUnitEntities) ]

(***************************************************************************)
(* update()                                                                *)
(***************************************************************************)
\* the answers a delegate gives in one frame over a set of questions: yes to
\* all, to none, or to exactly one
Answers(questions) ==
  IF delegator THEN {questions, {}} \cup {{q} : q \in questions} ELSE {{}}

Range(seq) == {seq[i] : i \in 1..Len(seq)}

\* the questions of one frame: who may damage, who may engage whom
DamageQuestions(h, live) == {u \in Range(live) : h[u].engagedEntity # {}}

EngageQuestions(h, live) ==
  {p \in Range(live) \X Range(live) : h[p[1]].isPlayer # h[p[2]].isPlayer}

update(shouldDamageOK, shouldEngageOK, spawned) ==
  LET parameters == updateEntityParameter([heap |-> spawned.heap, notes |-> spawned.notes],
                                          spawned.unitEntities, shouldDamageOK)
      states == updateEntityState(parameters, spawned.unitEntities, shouldEngageOK)
      post == updatePostProcess(states.heap, spawned.unitEntities)
  IN  /\ availableCost' = spawned.availableCost
      /\ nextEntityId' = spawned.nextEntityId
      /\ spawnRequestedUnitUnitIds' = spawned.queue
      /\ unitEntities' = post.unitEntities
      /\ heap' = post.heap
      /\ passedFrameCount' = passedFrameCount + 1
      /\ costRun' = IF \E i \in 1..Len(spawned.drain) :
                         spawned.drain[i].request.isPlayer /\ spawned.drain[i].accepted
                    THEN IF spawned.availableCost = 0 THEN {0} ELSE {}
                    ELSE {n + 1 : n \in costRun}
      /\ notifications' = states.notes
      /\ last' = [ op |-> "update",
                   recovered |-> spawned.recovered,
                   drain |-> spawned.drain,
                   collection |-> spawned.unitEntities,
                   phaseStart |-> parameters.heap,
                   shouldDamageOK |-> shouldDamageOK ]
      /\ UNCHANGED << config, delegator, walkLimit, unitMasterCache, stageMasterCache,
                      aiWaveCache, player, initialized, script >>

\* a frame that recovers twice
RecoveredTwice ==
  availableCost + config.costRecoveryPerFrame + config.costRecoveryPerFrame

\* line 112: the cost update() asks for first
RecoveredCost == availableCost + config.costRecoveryPerFrame

\* lines 112-116: recovery, the wave of the frame, the drain of the queue
Spawned ==
  LET recovery == updateAvailableCost(RecoveredCost)
      queue == updateAISpawn(spawnRequestedUnitUnitIds)
      drained == updateSpawnRequest(
                   [ availableCost |-> recovery.availableCost,
                     nextEntityId |-> nextEntityId, unitEntities |-> unitEntities,
                     heap |-> heap, notes |-> recovery.notes ],
                   queue)
  IN  [ recovered |-> recovery.availableCost, availableCost |-> drained.availableCost,
        nextEntityId |-> drained.nextEntityId, unitEntities |-> drained.unitEntities,
        heap |-> drained.heap, notes |-> drained.notes, drain |-> drained.drain,
        queue |-> drained.queue ]

(***************************************************************************)
(* The callers: init() once, then requests and frames in any order.        *)
(***************************************************************************)
CallInit ==
  /\ \E paramsConfig \in Configs, paramsDelegator \in BOOLEAN,
        paramsWalkLimit \in WalkLimits, waves \in WaveSchedules :
       init(paramsConfig, paramsDelegator, paramsWalkLimit, waves)
  /\ UNCHANGED << engageAnswers, managerVars >>

CallRequestSpawnPlayer ==
  /\ script # <<>> /\ Head(script).isPlayer
  /\ requestSpawnPlayer(Head(script).unitId)
  /\ script' = Tail(script)
  /\ UNCHANGED << engageAnswers, managerVars >>

CallRequestSpawnAI ==
  /\ script # <<>> /\ ~Head(script).isPlayer
  /\ requestSpawnAI(Head(script).unitId)
  /\ script' = Tail(script)
  /\ UNCHANGED << engageAnswers, managerVars >>

CallUpdate ==
  /\ passedFrameCount < MaxFrames
  /\ initialized \/ passedFrameCount = 0
  /\ LET spawned == Spawned
     IN  \E shouldDamageOK \in Answers(DamageQuestions(spawned.heap, spawned.unitEntities)),
            shouldEngageOK \in Answers(EngageQuestions(spawned.heap, spawned.unitEntities)) :
           update(shouldDamageOK, shouldEngageOK, spawned)
  /\ UNCHANGED << engageAnswers, managerVars >>

\* update() with the delegate's engage answers of the frame kept
CallUpdateListening ==
  /\ passedFrameCount < MaxFrames
  /\ initialized \/ passedFrameCount = 0
  /\ LET spawned == Spawned
     IN  \E shouldDamageOK \in Answers(DamageQuestions(spawned.heap, spawned.unitEntities)),
            shouldEngageOK \in Answers(EngageQuestions(spawned.heap, spawned.unitEntities)) :
           /\ update(shouldDamageOK, shouldEngageOK, spawned)
           /\ engageAnswers' = shouldEngageOK
  /\ UNCHANGED managerVars

Next ==
  \/ CallInit
  \/ CallRequestSpawnPlayer
  \/ CallRequestSpawnAI
  \/ CallUpdate

Spec == Init /\ [][Next]_vars

\* the same program, observed together with what its delegate answered
ListeningNext ==
  \/ CallInit
  \/ CallRequestSpawnPlayer
  \/ CallRequestSpawnAI
  \/ CallUpdateListening

ListeningSpec == Init /\ [][ListeningNext]_vars

(***************************************************************************)
(* BattleManager (src/src/managers/BattleManager.ts), the engine the game  *)
(* scene drives.  Its operations take the record of its fields and give    *)
(* the record after the call.  Callbacks to the delegate change nothing in *)
(* the manager and are left out; its two queries are answered per frame.   *)
(***************************************************************************)
INVALID_UNIT_ID == -1

\* UnitState
LOCKED == "LOCKED"
UnitState == {IDLE, LOCKED, DEAD}

\* new Unit(master, isPlayer)
Unit(master, isPlayer) ==
  [ id |-> 0, isPlayer |-> isPlayer, maxHealth |-> master.maxHealth,
    currentHealth |-> master.maxHealth, power |-> master.power, state |-> IDLE ]

\* unit.isAlly(target)
isAlly(unit, target) == unit.isPlayer = target.isPlayer

\* lines 66-85; the property names explored are decimal numerals, which
\* Number.parseInt(key) reads as Number.parseInt(key, 10) does
managerInit(m, waves, delegatorGiven) ==
  [m EXCEPT !.aiWaveMasterCache = CacheWaves(<<>>, waves),
            !.unitMasterCache = UnitMasters,
            !.customDelegator = @ \/ delegatorGiven,
            !.initialized = TRUE]

setDelegator(m) == [m EXCEPT !.customDelegator = TRUE]

managerRequestSpawn(m, unitId, isPlayer) ==
  [m EXCEPT !.spawnRequestedUnitUnitIds =
              Append(@, [unitId |-> unitId, isPlayer |-> isPlayer])]

refreshAvailableCost(m, newCost) ==
  [m EXCEPT !.availableCost =
              IF newCost > m.maxAvailableCost THEN m.maxAvailableCost ELSE newCost]

\* the reference of the object new Unit() creates next
NextObjectId(m) == Cardinality(DOMAIN m.objects)

\* line 130: the id a new unit gets
NextUnitId(m) == Len(m.units)

trySpawn(m, unitId, isPlayer) ==
  IF unitId \notin DOMAIN m.unitMasterCache
  THEN m
  ELSE
    LET master == m.unitMasterCache[unitId]
    IN  IF isPlayer /\ m.availableCost < master.cost
        THEN m
        ELSE
          LET paid == IF isPlayer
                      THEN refreshAvailableCost(m, m.availableCost - master.cost)
                      ELSE m
              reference == NextObjectId(paid)
              unit == [Unit(master, isPlayer) EXCEPT
                         !.id = NextUnitId(paid),
                         !.currentHealth = master.maxHealth,
                         !.state = IDLE]
          IN  [paid EXCEPT !.units = Append(@, reference),
                           !.objects = @ @@ (reference :> unit)]

isDied(unit) == unit.id = INVALID_UNIT_ID

requestAISpawn(m, targetFrame) ==
  IF targetFrame \notin DOMAIN m.aiWaveMasterCache
  THEN m
  ELSE LET waves == m.aiWaveMasterCache[targetFrame]
       IN  [m EXCEPT !.spawnRequestedUnitUnitIds =
                       @ \o [i \in 1..Len(waves) |->
                               [unitId |-> waves[i], isPlayer |-> FALSE]]]

RECURSIVE TrySpawnLoop(_, _, _)
TrySpawnLoop(m, queue, i) ==
  IF i > Len(queue) THEN m
  ELSE TrySpawnLoop(trySpawn(m, queue[i].unitId, queue[i].isPlayer), queue, i + 1)

managerUpdateSpawnRequest(m) ==
  IF Len(m.spawnRequestedUnitUnitIds) = 0
  THEN m
  ELSE [TrySpawnLoop(m, m.spawnRequestedUnitUnitIds, 1) EXCEPT
          !.spawnRequestedUnitUnitIds = <<>>]

\* lines 179-193; damageOK holds the attackers a custom delegate lets damage
managerUpdateDamage(m, u, damageOK) ==
  IF m.objects[u].state # LOCKED
  THEN m
  ELSE [m EXCEPT !.objects =
          [t \in DOMAIN m.objects |->
             IF /\ t \in Range(m.units)
                /\ ~isAlly(m.objects[u], m.objects[t])
                /\ (~m.customDelegator \/ u \in damageOK)
             THEN [m.objects[t] EXCEPT !.currentHealth = @ - m.objects[u].power]
             ELSE m.objects[t]]]

\* lines 199-233; the delegates explored answer shouldLock() with yes
updateState(m, u) ==
  LET unit == m.objects[u]
  IN  IF unit.state = DEAD
      THEN m
      ELSE IF unit.currentHealth <= 0
           THEN [m EXCEPT !.objects[u].id = INVALID_UNIT_ID, !.objects[u].state = DEAD]
           ELSE IF \E i \in 1..Len(m.units) :
                     /\ ~isAlly(unit, m.objects[m.units[i]])
                     /\ ~( m.objects[m.units[i]].state # IDLE
                           /\ m.objects[m.units[i]].state # LOCKED )
                THEN [m EXCEPT !.objects[u].state = LOCKED]
                ELSE m

\* lines 155-174: the loop over this.units, collecting the units not died
RECURSIVE UnitsLoop(_, _, _, _)
UnitsLoop(m, i, activeUnits, damageOK) ==
  IF i > Len(m.units)
  THEN [m EXCEPT !.units = activeUnits]
  ELSE
    LET u == m.units[i]
        updated == IF ~isDied(m.objects[u])
                   THEN updateState(managerUpdateDamage(m, u, damageOK), u)
                   ELSE m
    IN  UnitsLoop(updated, i + 1,
                  IF ~isDied(updated.objects[u]) THEN Append(activeUnits, u)
                  ELSE activeUnits,
                  damageOK)

managerSpawned(m) ==
  managerUpdateSpawnRequest(
    requestAISpawn(refreshAvailableCost(m, m.availableCost + m.costRecoveryPerFrame),
                   m.passedFrameCount))

managerUpdate(m, damageOK) ==
  [UnitsLoop(managerSpawned(m), 1, <<>>, damageOK) EXCEPT !.passedFrameCount = @ + 1]

\* the spawns asked of the manager in one run, by requestSpawn() or trySpawn()
ManagerScripts ==
  { << A(2), P(1), P(1) >>,
    << P(2), A(1), A(3) >>,
    << A(1), P(1), A(2) >> }

\* values the game sets the public field costRecoveryPerFrame to
CostRecoveries == {1, 2}

\* the answers of one frame to shouldDamage(): the default delegate says yes,
\* a custom one says yes to every attacker, to none, or to exactly one
ManagerAnswers(m) ==
  LET attackers == {u \in Range(m.units) : m.objects[u].state = LOCKED}
  IN  IF m.customDelegator
      THEN {attackers, {}} \cup {{u} : u \in attackers}
      ELSE {{}}

\* a BattleManager has been constructed; the BattleLogic is left as constructed
ManagerStart ==
  /\ config = CHOOSE c \in Configs : TRUE
  /\ delegator = FALSE
  /\ walkLimit = 0
  /\ availableCost = 0
  /\ nextEntityId = 0
  /\ unitEntities = <<>>
  /\ heap = <<>>
  /\ unitMasterCache = <<>>
  /\ stageMasterCache = <<>>
  /\ aiWaveCache = <<>>
  /\ passedFrameCount = 0
  /\ spawnRequestedUnitUnitIds = <<>>
  /\ player = <<>>
  /\ initialized = FALSE
  /\ script = <<>>
  /\ costRun = {0}
  /\ notifications = <<>>
  /\ last = [op |-> "new"]
  /\ engageAnswers = {}
  /\ manager = ManagerNew
  /\ managerCalls \in ManagerScripts

ManagerCallInit ==
  /\ ~manager.initialized
  /\ \E waves \in WaveSchedules, delegatorGiven \in BOOLEAN :
       manager' = managerInit(manager, waves, delegatorGiven)
  /\ UNCHANGED << logicVars, managerCalls >>

ManagerCallSetDelegator ==
  /\ ~manager.customDelegator
  /\ manager' = setDelegator(manager)
  /\ UNCHANGED << logicVars, managerCalls >>

\* an assignment to the public field, made before the first frame
ManagerSetCostRecoveryPerFrame ==
  /\ manager.passedFrameCount = 0 /\ manager.costRecoveryPerFrame = 0
  /\ \E recovery \in CostRecoveries :
       manager' = [manager EXCEPT !.costRecoveryPerFrame = recovery]
  /\ UNCHANGED << logicVars, managerCalls >>

ManagerCallRequestSpawn ==
  /\ managerCalls # <<>>
  /\ manager' = managerRequestSpawn(manager, Head(managerCalls).unitId,
                                     Head(managerCalls).isPlayer)
  /\ managerCalls' = Tail(managerCalls)
  /\ UNCHANGED logicVars

ManagerCallTrySpawn ==
  /\ managerCalls # <<>>
  /\ manager' = trySpawn(manager, Head(managerCalls).unitId, Head(managerCalls).isPlayer)
  /\ managerCalls' = Tail(managerCalls)
  /\ UNCHANGED logicVars

ManagerCallUpdate ==
  /\ manager.passedFrameCount < MaxFrames
  /\ \E damageOK \in ManagerAnswers(managerSpawned(manager)) :
       manager' = managerUpdate(manager, damageOK)
  /\ UNCHANGED << logicVars, managerCalls >>

ManagerNext ==
  \/ ManagerCallInit
  \/ ManagerCallSetDelegator
  \/ ManagerSetCostRecoveryPerFrame
  \/ ManagerCallRequestSpawn
  \/ ManagerCallTrySpawn
  \/ ManagerCallUpdate

ManagerSpec == ManagerStart /\ [][ManagerNext]_vars

(***************************************************************************)
(* What the claims speak of.                                               *)
(***************************************************************************)
Live == Range(unitEntities)

\* the step is a call of update()
IsUpdate == passedFrameCount' = passedFrameCount + 1

\* the entities update() works on: those alive before it and those it spawns
Collection == Range(last.collection)

\* the master of a request's unit type, as a set: empty when there is none
MasterOf(request) ==
  IF request.unitId \in DOMAIN unitMasterCache
  THEN {unitMasterCache[request.unitId]} ELSE {}

Min(a, b) == IF a < b THEN a ELSE b

\* what the player requests that the drain accepted before its i-th cost together
RECURSIVE SpentBefore(_)
SpentBefore(i) ==
  IF i <= 1 THEN 0
  ELSE LET earlier == last.drain[i - 1]
       IN  SpentBefore(i - 1)
           + IF earlier.request.isPlayer /\ earlier.entity # {}
             THEN unitMasterCache[earlier.request.unitId].cost ELSE 0

\* some player request of the drain was accepted
PlayerAccepted(drain) ==
  \E i \in 1..Len(drain) : drain[i].request.isPlayer /\ drain[i].entity # {}

IsCostNote(note) == note.type = "onAvailableCostUpdated"

(***************************************************************************)
(* C1: after every update() and at every cost notification,                *)
(* 0 <= availableCost <= maxAvailableCost.                                 *)
(***************************************************************************)
C1_CostClamp ==
  /\ last.op = "update" =>
       /\ 0 <= availableCost /\ availableCost <= config.maxAvailableCost
       /\ 0 <= last.recovered /\ last.recovered <= config.maxAvailableCost
  /\ \A i \in 1..Len(notifications) :
       IsCostNote(notifications[i]) =>
         /\ 0 <= notifications[i].availableCost
         /\ notifications[i].availableCost <= config.maxAvailableCost

\* a frame that recovered up to the cap and then spent all of it on a unit
C1_Witness ==
  /\ last.op = "update"
  /\ last.recovered = config.maxAvailableCost
  /\ availableCost = 0
  /\ \E i, j \in 1..Len(notifications) :
       /\ i < j
       /\ IsCostNote(notifications[i]) /\ IsCostNote(notifications[j])
       /\ notifications[i].availableCost = config.maxAvailableCost
       /\ notifications[j].availableCost = 0

(***************************************************************************)
(* C2: a player request met by the drain either adds exactly one entity    *)
(* and lowers the cost by exactly its unit's cost, or adds no entity and   *)
(* leaves the cost alone; the drain adds no other entity and changes the   *)
(* cost in no other way.                                                   *)
(***************************************************************************)
C2_SpawnAtomicity ==
  [][ IsUpdate =>
        LET drain == last'.drain
            created == (DOMAIN heap') \ (DOMAIN heap)
            after(i) == IF i = Len(drain) THEN availableCost' ELSE drain[i + 1].tmpCost
        IN  /\ \A i \in 1..Len(drain) :
                 drain[i].request.isPlayer =>
                   \/ /\ Cardinality(drain[i].entity) = 1
                      /\ drain[i].entity \subseteq created
                      /\ \E master \in MasterOf(drain[i].request) :
                           after(i) = drain[i].tmpCost - master.cost
                   \/ /\ drain[i].entity = {}
                      /\ after(i) = drain[i].tmpCost
            /\ created = UNION {drain[i].entity : i \in 1..Len(drain)}
            /\ \A i, j \in 1..Len(drain) :
                 i # j => drain[i].entity \cap drain[j].entity = {}
            /\ Len(drain) > 0 => drain[1].tmpCost = last'.recovered
            /\ Len(drain) = 0 => availableCost' = last'.recovered
            /\ Range(unitEntities') \subseteq Range(unitEntities) \cup created
            /\ \A u \in created : heap'[u].state # DEAD => u \in Range(unitEntities')
    ]_vars

\* one drain that accepted a player request and then refused another
C2_Witness ==
  /\ last.op = "update"
  /\ \E i, j \in 1..Len(last.drain) :
       /\ i < j
       /\ last.drain[i].request.isPlayer /\ last.drain[i].entity # {}
       /\ last.drain[j].request.isPlayer /\ last.drain[j].entity = {}
       /\ MasterOf(last.drain[j].request) # {}

(***************************************************************************)
(* C3: an entity that has become DEAD is out of the live collection when   *)
(* update() returns, never comes back and never changes state again.       *)
(***************************************************************************)
C3_DeadIsGone ==
  /\ [](\A u \in DOMAIN heap : heap[u].state = DEAD => u \notin Live)
  /\ [][ \A u \in DOMAIN heap :
           heap[u].state = DEAD =>
             heap'[u].state = DEAD /\ u \notin Range(unitEntities') ]_vars

\* an entity died in an earlier frame and a later frame has run without it
C3_Witness ==
  /\ last.op = "update"
  /\ \E u \in DOMAIN heap : heap[u].state = DEAD /\ u \notin Collection

(***************************************************************************)
(* C4: an entity enters KNOCK_BACK in a frame only if some configured      *)
(* threshold t has currentHealth < t * maxHealth at state resolution while *)
(* the health it had before the frame's damage was >= t * maxHealth.       *)
(***************************************************************************)
C4_KnockBackOnlyOnCrossing ==
  [][ IsUpdate =>
        \A u \in DOMAIN heap' :
          LET stateBefore == IF u \in DOMAIN heap THEN heap[u].state ELSE IDLE
              healthBefore == IF u \in DOMAIN heap THEN heap[u].currentHealth
                              ELSE heap'[u].maxHealth
              atResolution == last'.phaseStart[u]
          IN  (heap'[u].state = KNOCK_BACK /\ stateBefore # KNOCK_BACK) =>
                /\ atResolution.currentHealth + atResolution.currentFrameDamage
                     = healthBefore
                /\ \E i \in 1..Len(config.knockBackHealthThreasholds) :
                     LET t == config.knockBackHealthThreasholds[i]
                     IN  /\ atResolution.currentHealth * t.den
                              < atResolution.maxHealth * t.num
                         /\ healthBefore * t.den >= atResolution.maxHealth * t.num
    ]_vars

\* an engaged entity that this frame's damage took below a threshold is
\* knocked back
C4_Witness ==
  /\ last.op = "update"
  /\ \E u \in Collection :
       /\ heap[u].state = KNOCK_BACK
       /\ last.phaseStart[u].state = ENGAGED
       /\ last.phaseStart[u].currentFrameDamage > 0

(***************************************************************************)
(* C5: every entity is spawned in IDLE, and over one state-transition      *)
(* phase an entity keeps its state or goes IDLE->ENGAGED, ENGAGED->IDLE,   *)
(* ENGAGED->KNOCK_BACK, KNOCK_BACK->IDLE or KNOCK_BACK->DEAD.              *)
(***************************************************************************)
AllowedTransitions ==
  { <<IDLE, ENGAGED>>, <<ENGAGED, IDLE>>, <<ENGAGED, KNOCK_BACK>>,
    <<KNOCK_BACK, IDLE>>, <<KNOCK_BACK, DEAD>> }

C5_StateMachine ==
  [][ IsUpdate =>
        \A u \in Range(last'.collection) :
          LET before == last'.phaseStart[u].state
              after == heap'[u].state
          IN  /\ u \notin DOMAIN heap => before = IDLE
              /\ before = after \/ <<before, after>> \in AllowedTransitions
    ]_vars

(***************************************************************************)
(* C6: when update() returns, and all through its parameter phase, the     *)
(* engagedEntity of a live entity is itself live and of the other side.    *)
(***************************************************************************)
C6_EngagedIsLiveOpponent ==
  /\ \A u \in Live :
       \A t \in heap[u].engagedEntity :
         t \in Live /\ heap[t].isPlayer # heap[u].isPlayer
  /\ last.op = "update" =>
       \A u \in Collection :
         \A t \in last.phaseStart[u].engagedEntity :
           t \in Collection /\ heap[t].isPlayer # heap[u].isPlayer

\* an entity is still engaged after another one has died and gone
C6_Witness ==
  /\ last.op = "update"
  /\ \E u \in Live : heap[u].engagedEntity # {}
  /\ \E d \in DOMAIN heap : heap[d].state = DEAD

(***************************************************************************)
(* C7: no entity stays in the live collection for ever with                *)
(* currentHealth <= 0: when update() returns, a live entity whose health   *)
(* is spent is on its way to DEAD (it is in KNOCK_BACK) or can still be    *)
(* taken below a threshold, the only way into KNOCK_BACK and so to DEAD.   *)
(***************************************************************************)
C7_SpentHealthIsResolved ==
  \A u \in Live :
    heap[u].currentHealth <= 0 =>
      \/ heap[u].state = KNOCK_BACK
      \/ \E i \in 1..Len(config.knockBackHealthThreasholds) :
           AtOrAbove(heap[u].currentHealth, heap[u].maxHealth,
                     config.knockBackHealthThreasholds[i])

\* the health of a live entity is spent, it is not on its way to DEAD and no
\* threshold is left for it to cross
Stuck(h, u) ==
  /\ h[u].currentHealth <= 0
  /\ h[u].state \in {IDLE, ENGAGED}
  /\ ~ \E i \in 1..Len(config.knockBackHealthThreasholds) :
         AtOrAbove(h[u].currentHealth, h[u].maxHealth,
                   config.knockBackHealthThreasholds[i])

\* such an entity stays as it is, in the live collection, whatever is called
StuckForGood ==
  [][ \A u \in Live :
        Stuck(heap, u) => u \in Range(unitEntities') /\ Stuck(heap', u) ]_vars

(***************************************************************************)
(* C8: requestSpawn() only appends its request to the pending queue: the   *)
(* entities, the cost, the frame counter and the requests queued before    *)
(* stay as they are and no callback is made.                               *)
(***************************************************************************)
C8_RequestOnlyEnqueues ==
  [][ script' # script =>
        /\ spawnRequestedUnitUnitIds' = Append(spawnRequestedUnitUnitIds, Head(script))
        /\ UNCHANGED << unitEntities, heap, availableCost, passedFrameCount,
                        nextEntityId >>
        /\ notifications' = <<>>
    ]_vars

\* a request made while another is pending, entities live and cost is there
C8_Witness ==
  /\ last.op = "requestSpawn"
  /\ Len(spawnRequestedUnitUnitIds) >= 2
  /\ Live # {}
  /\ availableCost > 0

(***************************************************************************)
(* C9: the drain accepts a player request of a known unit type iff the     *)
(* type's cost is at most the cost recovered less the costs of the player  *)
(* requests accepted before it in the same drain; the queue is empty when  *)
(* update() returns, so a refused request is not tried again.              *)
(***************************************************************************)
C9_CostGate ==
  last.op = "update" =>
    /\ spawnRequestedUnitUnitIds = <<>>
    /\ \A i \in 1..Len(last.drain) :
         \A master \in MasterOf(last.drain[i].request) :
           last.drain[i].request.isPlayer =>
             ( last.drain[i].entity # {}
                 <=> master.cost <= last.recovered - SpentBefore(i) )

\* of two requests for the same unit the first took what the second needed
C9_Witness ==
  /\ last.op = "update"
  /\ \E i, j \in 1..Len(last.drain) :
       /\ i < j
       /\ last.drain[i].request = last.drain[j].request
       /\ last.drain[i].request.isPlayer
       /\ last.drain[i].entity # {} /\ last.drain[j].entity = {}
       /\ \E master \in MasterOf(last.drain[j].request) :
            master.cost <= last.recovered

(***************************************************************************)
(* C10: n frames after the cost was 0, with no player request accepted in  *)
(* between, the cost is min(n * costRecoveryPerFrame, maxAvailableCost);   *)
(* and any update() that accepts no player request leaves                  *)
(* min(previous + costRecoveryPerFrame, maxAvailableCost).                 *)
(***************************************************************************)
C10_Recovery ==
  /\ [](\A n \in costRun :
          availableCost = Min(n * config.costRecoveryPerFrame, config.maxAvailableCost))
  /\ [][ (IsUpdate /\ ~PlayerAccepted(last'.drain)) =>
           availableCost' = Min(availableCost + config.costRecoveryPerFrame,
                                config.maxAvailableCost) ]_vars

\* frames of recovery alone that ran into the cap
C10_Witness ==
  /\ last.op = "update"
  /\ \E n \in costRun :
       /\ n >= 2
       /\ (n - 1) * config.costRecoveryPerFrame < config.maxAvailableCost
       /\ n * config.costRecoveryPerFrame > config.maxAvailableCost
       /\ availableCost = config.maxAvailableCost

(***************************************************************************)
(* C11: an entity that is ENGAGED when state resolution starts ends the    *)
(* frame in KNOCK_BACK exactly when the frame's damage took its health     *)
(* from at or above t * maxHealth to strictly below it, for a configured   *)
(* threshold t; health that stays at or above every threshold, a health    *)
(* equal to a threshold included, does not knock it back.                  *)
(***************************************************************************)
C11_KnockBackAtFirstCrossing ==
  [][ IsUpdate =>
        \A u \in Range(last'.collection) :
          last'.phaseStart[u].state = ENGAGED =>
            /\ u \in DOMAIN heap
            /\ ( heap'[u].state = KNOCK_BACK
                   <=> \E i \in 1..Len(config.knockBackHealthThreasholds) :
                         LET t == config.knockBackHealthThreasholds[i]
                         IN  /\ heap[u].currentHealth * t.den >= heap[u].maxHealth * t.num
                             /\ last'.phaseStart[u].currentHealth * t.den
                                  < heap[u].maxHealth * t.num )
    ]_vars

\* an engaged entity is knocked back by the damage that took it below a
\* threshold it stood exactly at, having stayed engaged while it stood there
C11_Witness ==
  /\ last.op = "update"
  /\ \E u \in Collection :
       /\ last.phaseStart[u].state = ENGAGED
       /\ heap[u].state = KNOCK_BACK
       /\ last.phaseStart[u].currentFrameDamage > 0
       /\ \E i \in 1..Len(config.knockBackHealthThreasholds) :
            LET t == config.knockBackHealthThreasholds[i]
                before == last.phaseStart[u].currentHealth
                            + last.phaseStart[u].currentFrameDamage
            IN  /\ before * t.den = heap[u].maxHealth * t.num
                /\ before < heap[u].maxHealth

(***************************************************************************)
(* C12: the update() that runs while the frame counter is f drains, after  *)
(* the requests that were pending, exactly the AI requests the schedule    *)
(* lists under f, in listed order; each of a known unit type creates one   *)
(* AI entity of that type, later-listed ones after earlier-listed ones,    *)
(* and update() creates no other entity.  A frame with no entry adds       *)
(* nothing from the schedule.                                              *)
(***************************************************************************)
\* the decimal numeral of n, as a property name
RECURSIVE Numeral(_)
Numeral(n) ==
  IF n < 10 THEN << DecimalDigits[n + 1] >>
  ELSE Numeral(n \div 10) \o << DecimalDigits[(n % 10) + 1] >>

\* what the schedule given to init() lists under frame f
Listed(f) ==
  IF Numeral(f) \in DOMAIN stageMasterCache THEN stageMasterCache[Numeral(f)] ELSE <<>>

\* the place of entity u in the collection the frame worked on
PlaceOf(collection, u) == CHOOSE i \in 1..Len(collection) : collection[i] = u

C12_WaveAtItsFrame ==
  [][ IsUpdate =>
        LET listed == Listed(passedFrameCount)
            pending == Len(spawnRequestedUnitUnitIds)
            drain == last'.drain
        IN  /\ Len(drain) = pending + Len(listed)
            /\ \A i \in 1..pending : drain[i].request = spawnRequestedUnitUnitIds[i]
            /\ \A i \in 1..Len(listed) :
                 LET d == drain[pending + i]
                 IN  /\ d.request = [unitId |-> listed[i], isPlayer |-> FALSE]
                     /\ IF listed[i] \in DOMAIN unitMasterCache
                        THEN /\ Cardinality(d.entity) = 1
                             /\ \A e \in d.entity :
                                  /\ e \notin DOMAIN heap
                                  /\ e \in Range(last'.collection)
                                  /\ heap'[e].unitId = listed[i]
                                  /\ ~heap'[e].isPlayer
                        ELSE d.entity = {}
            /\ \A i, j \in 1..Len(listed) :
                 i < j =>
                   \A a \in drain[pending + i].entity, b \in drain[pending + j].entity :
                     PlaceOf(last'.collection, a) < PlaceOf(last'.collection, b)
            /\ (DOMAIN heap') \ (DOMAIN heap)
                 = UNION {drain[i].entity : i \in 1..Len(drain)}
    ]_vars

\* a frame drained a pending request and then its wave of two, both spawned
C12_Witness ==
  /\ last.op = "update"
  /\ passedFrameCount > 0
  /\ LET listed == Listed(passedFrameCount - 1)
     IN  /\ Len(listed) >= 2
         /\ Len(last.drain) > Len(listed)
         /\ \A i \in 1..Len(listed) :
              last.drain[Len(last.drain) - Len(listed) + i].entity # {}

(***************************************************************************)
(* C13: with no delegate attached every policy query is answered yes: in   *)
(* each update() an entity with an engaged target deals its power of       *)
(* damage, an IDLE entity walks by its speed, and an IDLE entity with an   *)
(* opposing target that is IDLE or ENGAGED ends the frame ENGAGED.         *)
(***************************************************************************)
\* every entity the frame works on that is engaged to t has damaged it
DamageDealt(h, collection, t) ==
  \A u \in Range(collection) :
    (t \in h[u].engagedEntity /\ h[u].unitId \in DOMAIN unitMasterCache) =>
      h[t].currentFrameDamage >= unitMasterCache[h[u].unitId].power

C13_DefaultPermit ==
  [][ (IsUpdate /\ ~delegator) =>
        \A u \in Range(last'.collection) :
          LET atResolution == last'.phaseStart[u]
              distanceBefore == IF u \in DOMAIN heap THEN heap[u].distance ELSE 0
          IN  /\ DamageDealt(last'.phaseStart, last'.collection, u)
              /\ (atResolution.state = IDLE
                    /\ atResolution.unitId \in DOMAIN unitMasterCache) =>
                   atResolution.distance
                     = distanceBefore + unitMasterCache[atResolution.unitId].speed
              /\ (/\ atResolution.state = IDLE
                  /\ \E t \in Range(last'.collection) :
                       /\ last'.phaseStart[t].isPlayer # atResolution.isPlayer
                       /\ last'.phaseStart[t].state = IDLE) =>
                   heap'[u].state = ENGAGED
    ]_vars

(***************************************************************************)
(* C14: in every update() an entity whose state after the three passes     *)
(* differs from its state before them, one that became DEAD included, gets *)
(* exactly one state-changed notification, which carries the state before  *)
(* the passes as oldState and shows the state after them; an entity whose  *)
(* state is the same gets none; and these notifications come after every   *)
(* other notification of the frame.                                        *)
(***************************************************************************)
IsStateNote(note) == note.type = "onAttackableEntityStateChanged"

\* the places of the state-changed notifications about entity u
StateNotesOf(u) ==
  {i \in 1..Len(notifications) :
     IsStateNote(notifications[i]) /\ notifications[i].entity = u}

C14_OneStateNotePerChange ==
  last.op = "update" =>
    /\ \A u \in Collection :
         IF last.phaseStart[u].state # heap[u].state
         THEN /\ Cardinality(StateNotesOf(u)) = 1
              /\ \A i \in StateNotesOf(u) :
                   /\ notifications[i].oldState = last.phaseStart[u].state
                   /\ notifications[i].state = heap[u].state
         ELSE StateNotesOf(u) = {}
    /\ \A i \in 1..Len(notifications) :
         IsStateNote(notifications[i]) =>
           /\ notifications[i].entity \in Collection
           /\ \A j \in 1..Len(notifications) :
                i < j => IsStateNote(notifications[j])

\* a frame in which one entity died, another changed state and a third did not
C14_Witness ==
  /\ last.op = "update"
  /\ \E u, v \in Collection :
       /\ heap[u].state = DEAD /\ StateNotesOf(u) # {}
       /\ heap[v].state # DEAD /\ StateNotesOf(v) = {}
  /\ \E i \in 1..Len(notifications) : ~IsStateNote(notifications[i])

(***************************************************************************)
(* C15: an entity is resolved by the rule of the one group its state at    *)
(* the start of the passes puts it in.  One that starts in KNOCK_BACK ends *)
(* in KNOCK_BACK, IDLE or DEAD with no target; one that starts ENGAGED     *)
(* ends ENGAGED to the same target, or IDLE or in KNOCK_BACK with none;    *)
(* neither acquires a target in that frame.  One that starts IDLE ends     *)
(* IDLE or ENGAGED.                                                        *)
(***************************************************************************)
C15_OneGroupPerFrame ==
  last.op = "update" =>
    \A u \in Collection :
      LET before == last.phaseStart[u]
          after == heap[u]
      IN  /\ before.state = KNOCK_BACK =>
               after.state \in {KNOCK_BACK, IDLE, DEAD} /\ after.engagedEntity = {}
          /\ before.state = ENGAGED =>
               \/ after.state = ENGAGED /\ after.engagedEntity = before.engagedEntity
               \/ after.state \in {IDLE, KNOCK_BACK} /\ after.engagedEntity = {}
          /\ before.state = IDLE => after.state \in {IDLE, ENGAGED}

(***************************************************************************)
(* C16: update() on a BattleLogic that init() has not been called on       *)
(* reports an error and runs no frame: it does not recover cost, advance   *)
(* the frame counter or drain the spawn queue.                             *)
(***************************************************************************)
C16_NoFrameBeforeInit ==
  [][ (~initialized /\ ~initialized') =>
        /\ passedFrameCount' = passedFrameCount
        /\ availableCost' = availableCost
        /\ Len(spawnRequestedUnitUnitIds') >= Len(spawnRequestedUnitUnitIds)
    ]_vars

(***************************************************************************)
(* C17: entity ids come from a counter that only grows: no two entities    *)
(* ever created, the dead and removed included, share an id; the spawns    *)
(* accepted by one drain take the counter's values in queue order; and so  *)
(* the live collection never holds two entities with the same id.          *)
(***************************************************************************)
\* how many requests before the i-th the drain turned into entities
SpawnedBefore(drain, i) == Cardinality({j \in 1..(i - 1) : drain[j].entity # {}})

C17_FreshIds ==
  /\ [](/\ \A u, v \in DOMAIN heap : u # v => heap[u].id # heap[v].id
        /\ \A u \in DOMAIN heap : 0 <= heap[u].id /\ heap[u].id < nextEntityId
        /\ \A i, j \in 1..Len(unitEntities) :
             i # j => heap[unitEntities[i]].id # heap[unitEntities[j]].id
        /\ last.op = "update" =>
             \A i \in 1..Len(last.drain) :
               \A e \in last.drain[i].entity :
                 heap[e].id = nextEntityId - SpawnedBefore(last.drain, Len(last.drain) + 1)
                                + SpawnedBefore(last.drain, i))
  /\ [][ /\ nextEntityId' >= nextEntityId
         /\ \A u \in DOMAIN heap : heap'[u].id = heap[u].id
         /\ \A e \in (DOMAIN heap') \ (DOMAIN heap) : heap'[e].id >= nextEntityId
     ]_vars

\* an entity has died and gone, and the last drain spawned two more
C17_Witness ==
  /\ last.op = "update"
  /\ \E d \in DOMAIN heap : heap[d].state = DEAD /\ d \notin Collection
  /\ \E i, j \in 1..Len(last.drain) :
       i < j /\ last.drain[i].entity # {} /\ last.drain[j].entity # {}

(***************************************************************************)
(* C18: in BattleManager the units of the live collection hold pairwise    *)
(* distinct ids after any calls of trySpawn(), requestSpawn() and          *)
(* update(), also once dead units have been compacted out, and only dead   *)
(* units hold the sentinel id -1.                                          *)
(***************************************************************************)
C18_ManagerIdsDistinct ==
  /\ \A i, j \in 1..Len(manager.units) :
       i # j => manager.objects[manager.units[i]].id
                  # manager.objects[manager.units[j]].id
  /\ \A u \in DOMAIN manager.objects :
       manager.objects[u].id = INVALID_UNIT_ID => manager.objects[u].state = DEAD


(***************************************************************************)
(* C19: an entity enters KNOCK_BACK with currentKnockBackFrameCount = 0;   *)
(* every later update() moves it back by knockBackSpeed and counts one     *)
(* frame; it stays in KNOCK_BACK while the count is below knockBackFrames  *)
(* and leaves in the update that brings the count to knockBackFrames, to   *)
(* DEAD if currentHealth < 1 and to a state that is not DEAD otherwise.    *)
(* An entity found in KNOCK_BACK between two updates has a count below     *)
(* knockBackFrames, so it leaves after knockBackFrames updates in all.     *)
(***************************************************************************)
KnockBackFramesOf(u) == unitMasterCache[heap[u].unitId].knockBackFrames

C19_KnockBackRuns ==
  /\ [](\A u \in Live :
          heap[u].state = KNOCK_BACK =>
            heap[u].currentKnockBackFrameCount < KnockBackFramesOf(u))
  /\ [][IsUpdate =>
          \A u \in Range(last'.collection) :
            LET after == heap'[u]
                master == unitMasterCache[after.unitId]
                wasKnockedBack == u \in Live /\ heap[u].state = KNOCK_BACK
            IN  /\ (~wasKnockedBack /\ after.state = KNOCK_BACK) =>
                     after.currentKnockBackFrameCount = 0
                /\ wasKnockedBack =>
                     /\ after.distance = heap[u].distance - master.knockBackSpeed
                     /\ after.currentKnockBackFrameCount
                          = heap[u].currentKnockBackFrameCount + 1
                     /\ IF after.currentKnockBackFrameCount < master.knockBackFrames
                        THEN after.state = KNOCK_BACK
                        ELSE IF after.currentHealth < 1
                             THEN after.state = DEAD
                             ELSE after.state \in {IDLE, ENGAGED}]_vars

\* an entity has just left KNOCK_BACK, in the update that completed its count
C19_Witness ==
  /\ last.op = "update"
  /\ \E u \in Collection :
       /\ last.phaseStart[u].state = KNOCK_BACK
       /\ heap[u].state # KNOCK_BACK
       /\ heap[u].currentKnockBackFrameCount = KnockBackFramesOf(u)

(***************************************************************************)
(* C20: the threshold ladder of the ENGAGED resolution is evaluated even   *)
(* when the disengage branch has fired.  An ENGAGED entity whose target is *)
(* dead or in KNOCK_BACK when the ENGAGED pass reaches it, and whose own   *)
(* health crossed a threshold downward in this frame, ends the update in   *)
(* KNOCK_BACK with engagedEntity cleared.                                  *)
(***************************************************************************)
\* the entities as the ENGAGED pass finds them when it reaches u: the
\* KNOCK_BACK pass is over and the ENGAGED entities before u are resolved
WhenEngagedPassReaches(start, live, u) ==
  StateLoop(StateLoop(start, live, 1, KNOCK_BACK, {}),
            SubSeq(live, 1, PlaceOf(live, u) - 1), 1, ENGAGED, {})

\* lines 394-400: u has a target, and it is dead or knocked back
DisengageFires(h, u) ==
  /\ h[u].engagedEntity # {}
  /\ \/ h[Target(h[u])].currentHealth < 1
     \/ h[Target(h[u])].state = KNOCK_BACK

\* u is ENGAGED, loses its target and crosses a threshold in the frame that
\* starts its state phase with the entities `start`
DisengagedAndCrossed(start, live, u) ==
  /\ start[u].state = ENGAGED
  /\ DisengageFires(WhenEngagedPassReaches(start, live, u), u)
  /\ CrossedThreshold(start[u])

C20_LadderAfterDisengage ==
  [][IsUpdate =>
       \A u \in Range(last'.collection) :
         DisengagedAndCrossed(last'.phaseStart, last'.collection, u) =>
           /\ heap'[u].state = KNOCK_BACK
           /\ heap'[u].engagedEntity = {}]_vars

\* an entity lost its target and crossed a threshold in the same update
C20_Witness ==
  /\ last.op = "update"
  /\ \E u \in Collection :
       /\ DisengagedAndCrossed(last.phaseStart, last.collection, u)
       /\ heap[u].state = KNOCK_BACK

(***************************************************************************)
(* C21: in the parameter phase the distance of an entity changes by its    *)
(* state alone.  ENGAGED: unchanged.  KNOCK_BACK: knockBackSpeed less, and *)
(* the knockback counter one more.  IDLE: speed more when the delegate     *)
(* lets it walk or there is no delegate, unchanged otherwise.  Every       *)
(* entity outside KNOCK_BACK has its knockback counter at 0 afterwards.    *)
(***************************************************************************)
C21_DistanceByState ==
  [][IsUpdate =>
       \A u \in Range(last'.collection) :
         LET before == Spawned.heap[u]
             after == last'.phaseStart[u]
             master == unitMasterCache[before.unitId]
         IN  /\ after.state = before.state
             /\ before.state = ENGAGED =>
                  /\ after.distance = before.distance
                  /\ after.currentKnockBackFrameCount = 0
             /\ before.state = KNOCK_BACK =>
                  /\ after.distance = before.distance - master.knockBackSpeed
                  /\ after.currentKnockBackFrameCount
                       = before.currentKnockBackFrameCount + 1
             /\ before.state = IDLE =>
                  /\ after.distance
                       = IF ~delegator \/ shouldUnitWalk(before)
                         THEN before.distance + master.speed
                         ELSE before.distance
                  /\ after.currentKnockBackFrameCount = 0]_vars

\* one update() found an ENGAGED entity, an entity in KNOCK_BACK and an IDLE
\* entity that has reached the delegate's walk limit
C21_Witness ==
  /\ last.op = "update"
  /\ delegator
  /\ \E u, v, x \in Collection :
       /\ last.phaseStart[u].state = ENGAGED
       /\ last.phaseStart[v].state = KNOCK_BACK
       /\ last.phaseStart[x].state = IDLE
       /\ last.phaseStart[x].distance >= walkLimit

(***************************************************************************)
(* C22: a live entity has currentFrameDamage = 0 between two updates.  At  *)
(* the start of the state phase the currentFrameDamage of an entity is the *)
(* sum of the power of the attackers engaged with it whose damage was let  *)
(* through in this frame, and currentHealth + currentFrameDamage is the    *)
(* health it had when the frame began; no state changed while the damage   *)
(* was applied and no health changes once the states are being resolved.   *)
(***************************************************************************)
\* the attackers of target t whose damage goes through: all of them without
\* a delegate, those the delegate approved with one
Attackers(h, live, approved, t) ==
  {u \in Range(live) : /\ h[u].engagedEntity = {t}
                       /\ (~delegator \/ u \in approved)}

RECURSIVE PowerSum(_, _)
PowerSum(h, attackers) ==
  IF attackers = {}
  THEN 0
  ELSE LET u == CHOOSE a \in attackers : TRUE
       IN  unitMasterCache[h[u].unitId].power + PowerSum(h, attackers \ {u})

C22_FrameDamage ==
  /\ [](\A u \in Live : heap[u].currentFrameDamage = 0)
  /\ [][IsUpdate =>
          \A t \in Range(last'.collection) :
            LET before == Spawned.heap[t]
                atResolution == last'.phaseStart[t]
                attackers == Attackers(Spawned.heap, last'.collection,
                                       last'.shouldDamageOK, t)
            IN  /\ atResolution.currentFrameDamage = PowerSum(Spawned.heap, attackers)
                /\ atResolution.currentHealth + atResolution.currentFrameDamage
                     = before.currentHealth
                /\ atResolution.state = before.state
                /\ heap'[t].currentHealth = atResolution.currentHealth]_vars

\* two attackers have damaged the same target in one update()
C22_Witness ==
  /\ last.op = "update"
  /\ \E t \in Collection :
       \E u, v \in Attackers(last.phaseStart, last.collection, last.shouldDamageOK, t) :
         /\ u # v
         /\ last.phaseStart[t].currentFrameDamage
              = unitMasterCache[heap[u].unitId].power
                  + unitMasterCache[heap[v].unitId].power

(***************************************************************************)
(* C23: the drain accepts an AI request iff its unit type has a master     *)
(* record, whatever the running cost, and leaves the running cost as it    *)
(* was.  A request of either side for a unit type without a master record  *)
(* creates no entity, changes no cost and is not announced; the entities   *)
(* update() adds are those of the accepted requests, in queue order, each  *)
(* announced once when a delegate is attached.                             *)
(***************************************************************************)
\* the running cost the drain d hands on after its i-th request; after the
\* last request it is what update() leaves as availableCost
CostAfter(d, i, finalCost) == IF i < Len(d) THEN d[i + 1].tmpCost ELSE finalCost

\* the ids of the entities the drain d created, in queue order
RECURSIVE CreatedBy(_)
CreatedBy(d) ==
  IF d = <<>>
  THEN <<>>
  ELSE IF Head(d).accepted
       THEN << CHOOSE id \in Head(d).entity : TRUE >> \o CreatedBy(Tail(d))
       ELSE CreatedBy(Tail(d))

IsSpawnNote(n) == n.type = "onUnitEntitySpawned"

C23_AISpawnAndUnknownUnits ==
  [][IsUpdate =>
       LET d == last'.drain
           announced == SelectSeq(notifications', IsSpawnNote)
       IN  /\ \A i \in 1..Len(d) :
                LET known == d[i].request.unitId \in DOMAIN unitMasterCache
                IN  /\ ~d[i].request.isPlayer =>
                         /\ d[i].accepted <=> known
                         /\ CostAfter(d, i, availableCost') = d[i].tmpCost
                    /\ ~known =>
                         /\ ~d[i].accepted
                         /\ d[i].entity = {}
                         /\ CostAfter(d, i, availableCost') = d[i].tmpCost
                    /\ d[i].accepted <=> d[i].entity # {}
           /\ last'.collection = unitEntities \o CreatedBy(d)
           /\ \A i \in 1..Len(CreatedBy(d)) :
                LET id == CreatedBy(d)[i]
                IN  /\ id \notin DOMAIN heap
                    /\ \E j \in 1..Len(d) :
                         /\ d[j].entity = {id}
                         /\ last'.phaseStart[id].unitId = d[j].request.unitId
                         /\ last'.phaseStart[id].isPlayer = d[j].request.isPlayer
           /\ delegator =>
                /\ Len(announced) = Len(CreatedBy(d))
                /\ \A i \in 1..Len(announced) : announced[i].entity = CreatedBy(d)[i]]_vars

\* with no cost left, one drain dropped a request for an unknown unit type
\* and accepted the AI request behind it
C23_Witness ==
  /\ last.op = "update"
  /\ delegator
  /\ \E i, j \in 1..Len(last.drain) :
       /\ i < j
       /\ last.drain[i].request.unitId \notin DOMAIN unitMasterCache
       /\ ~last.drain[j].request.isPlayer
       /\ last.drain[j].accepted
       /\ last.drain[j].tmpCost = 0

(***************************************************************************)
(* C24: the IDLE resolution of an entity takes, in array order, the first  *)
(* entity of the other side that is IDLE or ENGAGED when the scan looks at *)
(* it and that the delegate approves; the entity becomes ENGAGED with that *)
(* target as its engagedEntity.  It engages no ally, not itself and no     *)
(* target in KNOCK_BACK or DEAD, and without such a target it stays IDLE   *)
(* with no engagedEntity.  Checked where the delegate's answers are kept.  *)
(***************************************************************************)
\* the entities after the IDLE pass has handled the first k of the collection
RECURSIVE IdlePassUpTo(_, _, _, _)
IdlePassUpTo(h, live, k, shouldEngageOK) ==
  IF k = 0
  THEN h
  ELSE LET sofar == IdlePassUpTo(h, live, k - 1, shouldEngageOK)
       IN  IF sofar[live[k]].state = IDLE
           THEN updateUnitIdleState(sofar, live, live[k], shouldEngageOK)
           ELSE sofar

\* the entities as the IDLE pass finds them when it reaches u
WhenIdlePassReaches(start, live, u, shouldEngageOK) ==
  IdlePassUpTo(StateLoop(StateLoop(start, live, 1, KNOCK_BACK, {}),
                         live, 1, ENGAGED, {}),
               live, PlaceOf(live, u) - 1, shouldEngageOK)

\* the places in the collection of the targets the claim lets u engage
EngageCandidates(h, live, u, shouldEngageOK) ==
  {j \in 1..Len(live) :
     /\ h[live[j]].isPlayer # h[u].isPlayer
     /\ h[live[j]].state \in {IDLE, ENGAGED}
     /\ delegator
     /\ <<u, live[j]>> \in shouldEngageOK}

FirstOf(places) == CHOOSE j \in places : \A k \in places : j <= k

C24_FirstEligibleTarget ==
  [][IsUpdate =>
       \A u \in Range(last'.collection) :
         LET live == last'.collection
             h == WhenIdlePassReaches(last'.phaseStart, live, u, engageAnswers')
             candidates == EngageCandidates(h, live, u, engageAnswers')
         IN  h[u].state = IDLE =>
               IF candidates = {}
               THEN /\ heap'[u].state = IDLE
                    /\ heap'[u].engagedEntity = {}
               ELSE LET t == live[FirstOf(candidates)]
                    IN  /\ heap'[u].state = ENGAGED
                        /\ heap'[u].engagedEntity = {t}
                        /\ t # u
                        /\ h[t].isPlayer # h[u].isPlayer
                        /\ h[t].state \notin {KNOCK_BACK, DEAD}]_vars

\* an entity engaged a target that was not the first opponent of the collection
C24_Witness ==
  /\ last.op = "update"
  /\ \E u \in Collection :
       LET live == last.collection
           h == WhenIdlePassReaches(last.phaseStart, live, u, engageAnswers)
           candidates == EngageCandidates(h, live, u, engageAnswers)
       IN  /\ h[u].state = IDLE
           /\ candidates # {}
           /\ \E j \in 1..Len(live) :
                /\ j < FirstOf(candidates)
                /\ h[live[j]].isPlayer # h[u].isPlayer
           /\ heap[u].state = ENGAGED

(***************************************************************************)
(* C25: when update() has returned, a live entity has an engagedEntity if  *)
(* and only if it is ENGAGED; so in the damage pass of the next frame no   *)
(* IDLE entity and no entity in KNOCK_BACK deals damage.                   *)
(***************************************************************************)
C25_EngagedIffTarget ==
  /\ [](\A u \in Live : heap[u].engagedEntity # {} <=> heap[u].state = ENGAGED)
  /\ [][IsUpdate =>
          \A u, t \in Range(last'.collection) :
            Spawned.heap[u].state \in {IDLE, KNOCK_BACK} =>
              u \notin Attackers(Spawned.heap, last'.collection,
                                 last'.shouldDamageOK, t)]_vars

\* after a frame in which damage was dealt the collection holds an ENGAGED
\* entity, an IDLE entity and an entity in KNOCK_BACK
C25_Witness ==
  /\ last.op = "update"
  /\ \E t \in Collection : last.phaseStart[t].currentFrameDamage > 0
  /\ \E u, v, x \in Live :
       /\ heap[u].state = ENGAGED
       /\ heap[v].state = IDLE
       /\ heap[x].state = KNOCK_BACK

(***************************************************************************)
(* C26: when update() has returned, no live entity is ENGAGED with a       *)
(* target that is in KNOCK_BACK, whatever the places of the two in the     *)
(* collection; so an entity in KNOCK_BACK takes no damage in the damage    *)
(* pass of the next frame.                                                 *)
(***************************************************************************)
C26_NoEngagementWithKnockedBack ==
  \A u \in Live :
    heap[u].state = ENGAGED =>
      \A t \in heap[u].engagedEntity : heap[t].state # KNOCK_BACK
=============================================================================
